---- MODULE Spec2Model ----
(***************************************************************************)
(* LogCast server (src/server.py): the accept loop, the per-connection     *)
(* receivers, the keep-alive broadcaster and the inode-aware log watcher,  *)
(* as threads interleaving at every access to shared state (the global     *)
(* `clients` set, client_lock, the sockets, the file system).              *)
(***************************************************************************)
EXTENDS Integers, Sequences, FiniteSets, TLC

\* ------------------------------------------------------------- bounds
MaxConns  == 2      \* connections the acceptor accepts in one run
MaxInodes == 2      \* distinct files ever bound to the watched path
MaxLines  == 2      \* lines in the files at any one time, over all files
MaxTruncs == 1      \* files truncated in place in one run, each once
MaxTime   == 10     \* time units the clock is followed for

Conns  == 1..MaxConns
Inodes == 1..MaxInodes
None   == 0         \* Python's None for current_inode; "no such path" for path_inode

\* ------------------------------------------------------------- lines
\* CONFIG["log_keyword"], shortened: a two-character, case-carrying keyword.
keyword == <<"L", "i">>

\* The lines a writer appends: no match (wrong case), one match that is not
\* a prefix, two matches.
LineSet == { <<"l", "i">>, <<"x", "L", "i">>, <<"L", "i", "L", "i">> }

\* Python's `keyword in line`: case-sensitive substring test.
ContainsAt(k, l, p) == \A j \in 1..Len(k) : l[p + j - 1] = k[j]

Contains(k, l) == \E p \in 1..(Len(l) - Len(k) + 1) : ContainsAt(k, l, p)

\* list(clients): a list of the members of the set, in the set's (arbitrary) order.
ListsOf(S) == { s \in [1..Cardinality(S) -> S] : \A i, j \in DOMAIN s : s[i] = s[j] => i = j }

VARIABLES
    clients,        \* the global set `clients`
    client_lock,    \* holder of the global client_lock: "free", "hb", "mon", "main"
    conn,           \* per connection: tls in {"none","raw","secure","failed"},
                    \*   closed (the server closed the socket), peer in {"alive","gone"}
    nconn,          \* connections accepted so far
    pc,             \* control point of "main", "hb", "mon"
    list,           \* per thread: the list(clients) it iterates
    idx,            \* per thread: members of list already taken by the for loop
    err,            \* per thread: the exception that last left a with-block ("none" if none)
    rcv,            \* per connection: control point of its handle_client thread
    current_inode,  \* watcher local
    file_handle,    \* watcher local: [state: "none"|"open"|"closed", ino, pos, start];
                    \*   start is a history field: the file's length when the seek ran
    file_stat,      \* watcher local: file_stat.st_ino, from line 74 to its last use at
                    \*   line 81 (None outside)
    line,           \* watcher local: <<ino, index>> of the line readline returned,
                    \*   while the iteration uses it (<< >> outside)
    path_inode,     \* file system: inode the watched path names (None: no such path)
    files,          \* file system: per inode, the lines of the file, each
                    \*   [txt, live, seq]; live and seq are history fields
    ninode,         \* file system: inodes created so far
    truncated,      \* history: inodes of the files truncated in place so far
    passes,         \* history: fan-out passes started per line
    alerts,         \* history: alerts sent per client and line
    reads,          \* history: lines returned by readline
    txfail,         \* history: clients a send to which failed with a transport error
    since,          \* history: per connection, the lines written before it was registered
    now,            \* the time, in time units (it advances only where Tick is a step)
    wake,           \* keep-alive thread: the time its current sleep ends
    hbsent          \* history: per connection, the times a keep-alive token went out to it

vars == << clients, client_lock, conn, nconn, pc, list, idx, err, rcv,
           current_inode, file_handle, file_stat, line,
           path_inode, files, ninode, truncated, passes, alerts, reads, txfail, since,
           now, wake, hbsent >>

netvars  == << clients, client_lock, conn, nconn, list, idx, err, rcv >>
monvars  == << current_inode, file_handle, file_stat, line >>
watcher  == << current_inode, file_handle, file_stat >>
fsvars   == << path_inode, files, ninode, truncated >>
histvars == << passes, alerts, reads, txfail, since >>
timevars == << now, wake, hbsent >>

LineIds == Inodes \X (1..MaxLines)

NoHandle == [state |-> "none", ino |-> None, pos |-> 0, start |-> 0]

\* State after module import and start_server's setup (lines 45-46, 65-66, 133-144):
\* empty registry, free lock, both daemon threads at the top of their loops.
Init ==
    /\ clients = {}
    /\ client_lock = "free"
    /\ conn = [c \in Conns |-> [tls |-> "none", closed |-> FALSE, peer |-> "alive"]]
    /\ nconn = 0
    /\ pc = [t \in {"main", "hb", "mon"} |->
                IF t = "main" THEN "accept" ELSE IF t = "hb" THEN "lock" ELSE "exists"]
    /\ list = [t \in {"main", "hb", "mon"} |-> << >>]
    /\ idx = [t \in {"main", "hb", "mon"} |-> 0]
    /\ err = [t \in {"main", "hb", "mon"} |-> "none"]
    /\ rcv = [c \in Conns |-> "none"]
    /\ current_inode = None
    /\ file_handle = NoHandle
    /\ file_stat = None
    /\ line = << >>
    /\ path_inode = None
    /\ files = [f \in Inodes |-> << >>]
    /\ ninode = 0
    /\ truncated = {}
    /\ passes = [l \in LineIds |-> 0]
    /\ alerts = [c \in Conns |-> [l \in LineIds |-> 0]]
    /\ reads = {}
    /\ txfail = {}
    /\ since = [c \in Conns |-> 0]
    /\ now = 0
    /\ wake = 0
    /\ hbsent = [c \in Conns |-> {}]

\* The process lives until the main thread leaves start_server; the other
\* threads are daemon threads and die with it.
Running == pc["main"] # "done"

\* ------------------------------------------------------ the file system
RECURSIVE SumLen(_)
SumLen(n) == IF n = 0 THEN 0 ELSE Len(files[n]) + SumLen(n - 1)

\* Lines written so far.
Written == SumLen(MaxInodes)

\* A writer appends one whole line to the file the path names.  live records
\* whether the watcher then held an open, positioned handle on that file, and
\* seq the line's number among all lines written.
AppendLine(txt) ==
    /\ Running
    /\ path_inode # None
    /\ Written < MaxLines
    /\ files' = [files EXCEPT ![path_inode] = Append(@,
                    [txt  |-> txt,
                     live |-> /\ file_handle.state = "open"
                              /\ file_handle.ino = path_inode
                              /\ pc["mon"] # "seek",
                     seq  |-> Written + 1])]
    /\ UNCHANGED << path_inode, ninode, truncated, pc, netvars, monvars, histvars, timevars >>

\* The path is re-bound to another file: a new one (new inode), or an older
\* one renamed back.
Replace(f) ==
    /\ Running
    /\ f \in Inodes
    /\ f <= ninode + 1
    /\ f # path_inode
    /\ path_inode' = f
    /\ ninode' = IF f > ninode THEN f ELSE ninode
    /\ UNCHANGED << files, truncated, pc, netvars, monvars, histvars, timevars >>

\* The path is unlinked (the file lives on while a handle is open on it).
Delete ==
    /\ Running
    /\ path_inode # None
    /\ path_inode' = None
    /\ UNCHANGED << files, ninode, truncated, pc, netvars, monvars, histvars, timevars >>

\* The file the path names is truncated in place to length zero (`: > file`,
\* logrotate's copytruncate): same inode, no content.  The offset of a handle
\* open on the file is not moved; readline at an offset at or beyond the end
\* returns '' (line 85), and a line written below the offset is never returned.
Truncate ==
    /\ Running
    /\ path_inode # None
    /\ Len(files[path_inode]) > 0
    /\ Cardinality(truncated) < MaxTruncs
    /\ path_inode \notin truncated
    /\ files' = [files EXCEPT ![path_inode] = << >>]
    /\ truncated' = truncated \cup {path_inode}
    /\ UNCHANGED << path_inode, ninode, pc, netvars, monvars, histvars, timevars >>

\* ---------------------------------------------- watch_log_file_by_inode
\* finally (lines 108-110): a closed handle resets current_inode.
Finally(fh, cur) == IF fh.state = "closed" THEN None ELSE cur

Goto(t, p) == pc' = [pc EXCEPT ![t] = p]

\* The tick without the test of lines 69-72: on to os.stat whether or not the
\* path exists.
MonExistsNoCheck ==
    /\ Running
    /\ pc["mon"] = "exists"
    /\ Goto("mon", "stat")
    /\ UNCHANGED << netvars, monvars, fsvars, histvars, timevars >>

\* lines 69-72: os.path.exists; missing: warn, sleep, continue (through
\* finally) to the next iteration.
MonExists ==
    /\ Running
    /\ pc["mon"] = "exists"
    /\ IF path_inode = None
         THEN /\ current_inode' = Finally(file_handle, current_inode)
              /\ UNCHANGED pc
         ELSE /\ Goto("mon", "stat")
              /\ UNCHANGED current_inode
    /\ UNCHANGED << netvars, file_handle, file_stat, line, fsvars, histvars, timevars >>

\* file_handle.close() of line 78 (`if file_handle:` is true of any file object).
CloseHandle(fh) == IF fh.state = "none" THEN fh ELSE [fh EXCEPT !.state = "closed"]

\* lines 74-78: os.stat (raises if the path is gone), the inode comparison and
\* the close of the old handle.
MonStat ==
    /\ Running
    /\ pc["mon"] = "stat"
    /\ IF path_inode = None
         THEN /\ Goto("mon", "except")
              /\ err' = [err EXCEPT !["mon"] = "OSError"]
              /\ UNCHANGED << file_stat, file_handle >>
         ELSE /\ IF current_inode # path_inode
                   THEN /\ file_stat' = path_inode
                        /\ file_handle' = CloseHandle(file_handle)
                        /\ Goto("mon", "open")
                   ELSE /\ Goto("mon", "read")
                        /\ UNCHANGED << file_handle, file_stat >>
              /\ UNCHANGED err
    /\ UNCHANGED << clients, client_lock, conn, nconn, list, idx, rcv,
                    current_inode, line, fsvars, histvars, timevars >>

\* lines 80-82: open(file_path) binds the handle to whatever file the path
\* names now (raises if none); current_inode takes the inode of the earlier stat.
MonOpen ==
    /\ Running
    /\ pc["mon"] = "open"
    /\ IF path_inode = None
         THEN /\ Goto("mon", "except")
              /\ err' = [err EXCEPT !["mon"] = "OSError"]
              /\ UNCHANGED << file_handle, current_inode >>
         ELSE /\ file_handle' = [state |-> "open", ino |-> path_inode, pos |-> 0, start |-> 0]
              /\ current_inode' = file_stat
              /\ Goto("mon", "seek")
              /\ UNCHANGED err
    /\ file_stat' = None
    /\ UNCHANGED << clients, client_lock, conn, nconn, list, idx, rcv,
                    line, fsvars, histvars, timevars >>

\* A seek to the start of the file (os.SEEK_SET) in place of the end.
SeekStart(fh) == 0

\* The offset file_handle.seek(0, os.SEEK_END) moves to.
SeekEnd(fh) == Len(files[fh.ino])

\* line 83.
MonSeek ==
    /\ Running
    /\ pc["mon"] = "seek"
    /\ file_handle' = [file_handle EXCEPT !.pos = SeekEnd(file_handle),
                                          !.start = Len(files[file_handle.ino])]
    /\ Goto("mon", "read")
    /\ UNCHANGED << netvars, current_inode, file_stat, line, fsvars, histvars, timevars >>

\* A match that ignores case (keyword.lower() in line.lower()).
Lower(ch) == IF ch = "L" THEN "l" ELSE ch

MatchesAnyCase(txt) ==
    Contains([j \in DOMAIN keyword |-> Lower(keyword[j])], [j \in DOMAIN txt |-> Lower(txt[j])])

\* line 90: the match that decides whether a pass is started.
Matches(txt) == Contains(keyword, txt)

\* lines 85-91: readline; nothing new: sleep and continue; a line without the
\* keyword: next iteration; a line with it: on to the fan-out.  (The handle
\* is open here, so the finally of lines 108-110 changes nothing.)
MonRead ==
    /\ Running
    /\ pc["mon"] = "read"
    /\ IF file_handle.pos >= Len(files[file_handle.ino])
         THEN /\ Goto("mon", "exists")
              /\ UNCHANGED << file_handle, line, reads >>
         ELSE /\ file_handle' = [file_handle EXCEPT !.pos = @ + 1]
              /\ reads' = reads \cup { << file_handle.ino, file_handle.pos + 1 >> }
              /\ IF Matches(files[file_handle.ino][file_handle.pos + 1].txt)
                   THEN /\ line' = << file_handle.ino, file_handle.pos + 1 >>
                        /\ Goto("mon", "lock")
                   ELSE /\ line' = << >>
                        /\ Goto("mon", "exists")
    /\ UNCHANGED << netvars, current_inode, file_stat, fsvars,
                    passes, alerts, txfail, since, timevars >>

\* line 85: readline raises (an I/O error, or bytes the text decoder rejects);
\* the offset is taken to stay where it was.
MonReadError ==
    /\ Running
    /\ pc["mon"] = "read"
    /\ err' = [err EXCEPT !["mon"] = "OSError"]
    /\ Goto("mon", "except")
    /\ UNCHANGED << clients, client_lock, conn, nconn, list, idx, rcv,
                    monvars, fsvars, histvars, timevars >>

\* lines 104-110: the handler logs and sleeps; finally; next iteration.
MonExcept ==
    /\ Running
    /\ pc["mon"] = "except"
    /\ err' = [err EXCEPT !["mon"] = "none"]
    /\ current_inode' = Finally(file_handle, current_inode)
    /\ Goto("mon", "exists")
    /\ UNCHANGED << clients, client_lock, conn, nconn, list, idx, rcv,
                    file_handle, file_stat, line, fsvars, histvars, timevars >>

\* ------------------------------------------------------------- fan-out
\* The pass of send_keep_alive (lines 51-60, t = "hb") and of
\* watch_log_file_by_inode (lines 92-102, t = "mon").

\* What client_socket.sendall does: a transport error (OSError and its
\* subclasses) on a socket the server closed or whose peer is gone; otherwise
\* it returns, or raises some other exception.
SendOutcomes(c) ==
    IF conn[c].closed \/ conn[c].peer = "gone" THEN {"transport"} ELSE {"ok", "other"}

\* What client_socket.getpeername() does in the handlers' log lines: OSError on
\* a closed socket, OSError (ENOTCONN) or the address on one whose peer is gone.
PeerName(c) ==
    IF conn[c].closed THEN {"raise"}
    ELSE IF conn[c].peer = "gone" THEN {"ok", "raise"} ELSE {"ok"}

\* An exception leaves the with-block and nothing catches it, in the watcher
\* as in the keep-alive thread.
RaiseUncaught(t, e) ==
    /\ client_lock' = "free"
    /\ err' = [err EXCEPT ![t] = e]
    /\ line' = IF t = "mon" THEN << >> ELSE line
    /\ Goto(t, "dead")

\* An exception leaves the with-block (the lock is released).  In the
\* keep-alive thread nothing catches it; in the watcher line 104 does.
Raise(t, e) ==
    /\ client_lock' = "free"
    /\ err' = [err EXCEPT ![t] = e]
    /\ line' = IF t = "mon" THEN << >> ELSE line
    /\ Goto(t, IF t = "hb" THEN "dead" ELSE "except")

\* A pass begun under a lock of its own (`with threading.Lock():`, as line
\* 126 has it) in place of the shared client_lock.
FanLockFresh(t) ==
    /\ Running
    /\ pc[t] = "lock"
    /\ \E l \in ListsOf(clients) : list' = [list EXCEPT ![t] = l]
    /\ idx' = [idx EXCEPT ![t] = 0]
    /\ passes' = IF t = "mon" THEN [passes EXCEPT ![line] = @ + 1] ELSE passes
    /\ Goto(t, "send")
    /\ UNCHANGED << clients, client_lock, conn, nconn, err, rcv, monvars, fsvars,
                    alerts, reads, txfail, since, timevars >>

\* `with client_lock:` and `list(clients)`.
FanLock(t) ==
    /\ Running
    /\ pc[t] = "lock"
    /\ client_lock = "free"
    /\ client_lock' = t
    /\ \E l \in ListsOf(clients) : list' = [list EXCEPT ![t] = l]
    /\ idx' = [idx EXCEPT ![t] = 0]
    /\ passes' = IF t = "mon" THEN [passes EXCEPT ![line] = @ + 1] ELSE passes
    /\ Goto(t, "send")
    /\ UNCHANGED << clients, conn, nconn, err, rcv, monvars, fsvars,
                    alerts, reads, txfail, since, timevars >>

\* The client the for loop currently holds.
Cur(t) == list[t][idx[t]]

\* One iteration of the for loop: sendall to the next member of the list.
FanSend(t) ==
    /\ Running
    /\ pc[t] = "send"
    /\ idx[t] < Len(list[t])
    /\ idx' = [idx EXCEPT ![t] = @ + 1]
    /\ LET c == list[t][idx[t] + 1] IN
         \E o \in SendOutcomes(c) :
            /\ Goto(t, CASE o = "ok" -> "send" [] o = "transport" -> "logT" [] OTHER -> "logO")
            /\ alerts' = IF o = "ok" /\ t = "mon"
                           THEN [alerts EXCEPT ![c][line] = @ + 1] ELSE alerts
            /\ txfail' = IF o = "transport" THEN txfail \cup {c} ELSE txfail
            /\ hbsent' = IF o = "ok" /\ t = "hb"
                           THEN [hbsent EXCEPT ![c] = @ \cup {now}] ELSE hbsent
    /\ UNCHANGED << clients, client_lock, conn, nconn, list, err, rcv,
                    monvars, fsvars, passes, reads, since, now, wake >>

\* The for loop is exhausted: the with-block ends.  The keep-alive thread
\* goes to its sleep (line 61), the watcher to its next iteration.
FanDone(t) ==
    /\ Running
    /\ pc[t] = "send"
    /\ idx[t] = Len(list[t])
    /\ client_lock' = "free"
    /\ line' = IF t = "mon" THEN << >> ELSE line
    /\ Goto(t, IF t = "hb" THEN "sleep" ELSE "exists")
    /\ UNCHANGED << clients, conn, nconn, list, idx, err, rcv, watcher, fsvars, histvars, timevars >>

\* lines 56, 98: logging.warning(f"... {client_socket.getpeername()} ...").
FanLogT(t) ==
    /\ Running
    /\ pc[t] = "logT"
    /\ \E r \in PeerName(Cur(t)) :
          IF r = "ok"
            THEN Goto(t, "remove") /\ UNCHANGED << client_lock, err, line >>
            ELSE Raise(t, "OSError")
    /\ UNCHANGED << clients, conn, nconn, list, idx, rcv, watcher, fsvars, histvars, timevars >>

\* lines 57, 99: clients.remove(client_socket), KeyError if it is not a member.
FanRemove(t) ==
    /\ Running
    /\ pc[t] = "remove"
    /\ IF Cur(t) \in clients
         THEN /\ clients' = clients \ {Cur(t)}
              /\ Goto(t, "close")
              /\ UNCHANGED << client_lock, err, line >>
         ELSE /\ Raise(t, "KeyError")
              /\ UNCHANGED clients
    /\ UNCHANGED << conn, nconn, list, idx, rcv, watcher, fsvars, histvars, timevars >>

\* lines 58, 100: client_socket.close().
FanClose(t) ==
    /\ Running
    /\ pc[t] = "close"
    /\ conn' = [conn EXCEPT ![Cur(t)].closed = TRUE]
    /\ Goto(t, "send")
    /\ UNCHANGED << clients, client_lock, nconn, list, idx, err, rcv,
                    monvars, fsvars, histvars, timevars >>

\* lines 60, 102: logging.error(f"... {client_socket.getpeername()} ...").
FanLogO(t) ==
    /\ Running
    /\ pc[t] = "logO"
    /\ \E r \in PeerName(Cur(t)) :
          IF r = "ok"
            THEN Goto(t, "send") /\ UNCHANGED << client_lock, err, line >>
            ELSE Raise(t, "OSError")
    /\ UNCHANGED << clients, conn, nconn, list, idx, rcv, watcher, fsvars, histvars, timevars >>

\* line 61: time.sleep(keep_alive_interval).
HbSleep ==
    /\ Running
    /\ pc["hb"] = "sleep"
    /\ Goto("hb", "lock")
    /\ UNCHANGED << netvars, monvars, fsvars, histvars, timevars >>

\* CONFIG["keep_alive_interval"], its default (line 32).
keep_alive_interval == 2

\* line 61 with the clock followed: time.sleep(keep_alive_interval) begins ...
HbSleepStart ==
    /\ Running
    /\ pc["hb"] = "sleep"
    /\ wake' = now + keep_alive_interval
    /\ Goto("hb", "asleep")
    /\ UNCHANGED << netvars, monvars, fsvars, histvars, now, hbsent >>

\* ... and returns once the interval has passed.
HbWake ==
    /\ Running
    /\ pc["hb"] = "asleep"
    /\ now >= wake
    /\ Goto("hb", "lock")
    /\ UNCHANGED << netvars, monvars, fsvars, histvars, timevars >>

\* One time unit passes.  The keep-alive thread is given the timing most
\* regular for it: a pass takes no time and a sleep ends exactly when it is
\* due, so time passes only while the thread sleeps, or once it has ended.
Tick ==
    /\ Running
    /\ now < MaxTime
    /\ \/ pc["hb"] = "asleep" /\ now < wake
       \/ pc["hb"] = "dead"
    /\ now' = now + 1
    /\ UNCHANGED << pc, netvars, monvars, fsvars, histvars, wake, hbsent >>

\* ---------------------------------------------------------- handle_client
\* lines 117-124: recv returns b"" or raises once the peer is gone or the
\* socket has been closed under it; the loop ends and finally begins.
RcvRecv(c) ==
    /\ Running
    /\ rcv[c] = "recv"
    /\ conn[c].closed \/ conn[c].peer = "gone"
    /\ rcv' = [rcv EXCEPT ![c] = "check"]
    /\ UNCHANGED << clients, client_lock, conn, nconn, pc, list, idx, err,
                    monvars, fsvars, histvars, timevars >>

\* lines 126-127: `with threading.Lock():` takes a lock created on the spot,
\* which excludes nobody; then the membership test.
RcvCheck(c) ==
    /\ Running
    /\ rcv[c] = "check"
    /\ rcv' = [rcv EXCEPT ![c] = IF c \in clients THEN "remove" ELSE "close"]
    /\ UNCHANGED << clients, client_lock, conn, nconn, pc, list, idx, err,
                    monvars, fsvars, histvars, timevars >>

\* line 128: clients.remove(client_socket); a KeyError leaves finally, and
\* line 129 is not reached.
RcvRemove(c) ==
    /\ Running
    /\ rcv[c] = "remove"
    /\ IF c \in clients
         THEN /\ clients' = clients \ {c}
              /\ rcv' = [rcv EXCEPT ![c] = "close"]
         ELSE /\ rcv' = [rcv EXCEPT ![c] = "KeyError"]
              /\ UNCHANGED clients
    /\ UNCHANGED << client_lock, conn, nconn, pc, list, idx, err,
                    monvars, fsvars, histvars, timevars >>

\* line 129: client_socket.close().
RcvClose(c) ==
    /\ Running
    /\ rcv[c] = "close"
    /\ conn' = [conn EXCEPT ![c].closed = TRUE]
    /\ rcv' = [rcv EXCEPT ![c] = "done"]
    /\ UNCHANGED << clients, client_lock, nconn, pc, list, idx, err,
                    monvars, fsvars, histvars, timevars >>

\* A subscriber goes away (close, reset, partition).
PeerGone(c) ==
    /\ Running
    /\ conn[c].tls = "secure"
    /\ ~conn[c].closed
    /\ conn[c].peer = "alive"
    /\ conn' = [conn EXCEPT ![c].peer = "gone"]
    /\ UNCHANGED << clients, client_lock, nconn, pc, list, idx, err, rcv,
                    monvars, fsvars, histvars, timevars >>

\* ------------------------------------------------------------ start_server
\* line 148: server_socket.accept() returns a new raw connection.
MainAccept ==
    /\ pc["main"] = "accept"
    /\ nconn < MaxConns
    /\ nconn' = nconn + 1
    /\ conn' = [conn EXCEPT ![nconn + 1].tls = "raw"]
    /\ Goto("main", "wrap")
    /\ UNCHANGED << clients, client_lock, list, idx, err, rcv, monvars, fsvars, histvars, timevars >>

\* line 148 interrupted: KeyboardInterrupt, caught at line 159.
MainInterrupt ==
    /\ pc["main"] = "accept"
    /\ err' = [err EXCEPT !["main"] = "KeyboardInterrupt"]
    /\ Goto("main", "sd_lock")
    /\ UNCHANGED << clients, client_lock, conn, nconn, list, idx, rcv,
                    monvars, fsvars, histvars, timevars >>

\* What context.wrap_socket does: it returns the TLS socket, or the handshake
\* fails with ssl.SSLError (certificate, protocol), or with another OSError
\* (the peer reset the connection or timed out during the handshake).
Handshakes == {"ok", "SSLError", "OSError"}

\* lines 151-158: only ssl.SSLError is caught inside the loop; any other
\* exception leaves the while loop for the finally of line 161.
MainWrap ==
    /\ pc["main"] = "wrap"
    /\ \E h \in Handshakes :
         /\ conn' = [conn EXCEPT ![nconn] =
                        IF h = "ok" THEN [@ EXCEPT !.tls = "secure"]
                        ELSE [@ EXCEPT !.tls = "failed", !.closed = TRUE]]
         /\ err' = [err EXCEPT !["main"] = IF h = "OSError" THEN "OSError" ELSE @]
         /\ Goto("main", CASE h = "ok" -> "add" [] h = "SSLError" -> "accept"
                           [] OTHER -> "sd_lock")
    /\ UNCHANGED << clients, client_lock, nconn, list, idx, rcv, monvars, fsvars, histvars, timevars >>

\* lines 153-154: with client_lock: clients.add(secure_socket).
MainAdd ==
    /\ pc["main"] = "add"
    /\ client_lock = "free"
    /\ clients' = clients \cup {nconn}
    /\ since' = [since EXCEPT ![nconn] = Written]
    /\ Goto("main", "spawn")
    /\ UNCHANGED << client_lock, conn, nconn, list, idx, err, rcv, monvars, fsvars,
                    passes, alerts, reads, txfail, timevars >>

\* line 155: the handle_client thread starts.
MainSpawn ==
    /\ pc["main"] = "spawn"
    /\ rcv' = [rcv EXCEPT ![nconn] = "recv"]
    /\ Goto("main", "accept")
    /\ UNCHANGED << clients, client_lock, conn, nconn, list, idx, err,
                    monvars, fsvars, histvars, timevars >>

\* lines 162-163: with client_lock: for client in list(clients).
ShutLock ==
    /\ pc["main"] = "sd_lock"
    /\ client_lock = "free"
    /\ client_lock' = "main"
    /\ \E l \in ListsOf(clients) : list' = [list EXCEPT !["main"] = l]
    /\ idx' = [idx EXCEPT !["main"] = 0]
    /\ Goto("main", "sd_close")
    /\ UNCHANGED << clients, conn, nconn, err, rcv, monvars, fsvars, histvars, timevars >>

\* line 164: client.close(); or the loop is exhausted and the lock released.
ShutClose ==
    /\ pc["main"] = "sd_close"
    /\ IF idx["main"] < Len(list["main"])
         THEN /\ idx' = [idx EXCEPT !["main"] = @ + 1]
              /\ conn' = [conn EXCEPT ![list["main"][idx["main"] + 1]].closed = TRUE]
              /\ Goto("main", "sd_remove")
              /\ UNCHANGED client_lock
         ELSE /\ client_lock' = "free"
              /\ Goto("main", "sd_sock")
              /\ UNCHANGED << idx, conn >>
    /\ UNCHANGED << clients, nconn, list, err, rcv, monvars, fsvars, histvars, timevars >>

\* line 165: clients.remove(client); a KeyError leaves the finally block and
\* start_server.
ShutRemove ==
    /\ pc["main"] = "sd_remove"
    /\ IF Cur("main") \in clients
         THEN /\ clients' = clients \ {Cur("main")}
              /\ Goto("main", "sd_close")
              /\ UNCHANGED << client_lock, err >>
         ELSE /\ client_lock' = "free"
              /\ err' = [err EXCEPT !["main"] = "KeyError"]
              /\ Goto("main", "done")
              /\ UNCHANGED clients
    /\ UNCHANGED << conn, nconn, list, idx, rcv, monvars, fsvars, histvars, timevars >>

\* lines 166-167: server_socket.close(); start_server returns.
ShutSocket ==
    /\ pc["main"] = "sd_sock"
    /\ Goto("main", "done")
    /\ UNCHANGED << netvars, monvars, fsvars, histvars, timevars >>

\* The listening socket has been closed: start_server came to line 166, which
\* it does when it leaves the finally block at its end and not by an exception
\* out of the loop of lines 163-165.
ServerSocketClosed == pc["main"] = "done" /\ err["main"] # "KeyError"

\* --------------------------------------------------------------- threads
HeartbeatPass ==
    \/ FanLock("hb") \/ FanSend("hb") \/ FanDone("hb") \/ FanLogT("hb")
    \/ FanRemove("hb") \/ FanClose("hb") \/ FanLogO("hb")

Heartbeat == HeartbeatPass \/ HbSleep

Monitor ==
    \/ MonExists \/ MonStat \/ MonOpen \/ MonSeek \/ MonRead \/ MonReadError \/ MonExcept
    \/ FanLock("mon") \/ FanSend("mon") \/ FanDone("mon") \/ FanLogT("mon")
    \/ FanRemove("mon") \/ FanClose("mon") \/ FanLogO("mon")

Receiver(c) == RcvRecv(c) \/ RcvCheck(c) \/ RcvRemove(c) \/ RcvClose(c)

Main ==
    \/ MainAccept \/ MainInterrupt \/ MainWrap \/ MainAdd \/ MainSpawn
    \/ ShutLock \/ ShutClose \/ ShutRemove \/ ShutSocket

Receivers == \E c \in Conns : Receiver(c)

Peers == \E c \in Conns : PeerGone(c)

Writers ==
    \/ \E txt \in LineSet : AppendLine(txt)
    \/ \E f \in Inodes : Replace(f)
    \/ Delete

\* The whole server and its environment.
Next == Heartbeat \/ Monitor \/ Receivers \/ Main \/ Peers \/ Writers

Spec == Init /\ [][Next]_vars

\* The connection side: acceptor, receivers, keep-alive passes and shutdown,
\* with subscribers coming and going, while the watched file does not exist.
\* Its behaviours are behaviours of Spec.
NetNext == Heartbeat \/ Receivers \/ Main \/ Peers

NetSpec == Init /\ [][NetNext]_vars

\* The watcher side.  It starts in the state Spec reaches when the first
\* connection has been accepted, handshaken and registered, its receiver
\* started, and the acceptor is back in accept() (lines 148-155, once); from
\* there the watcher, the writers of the file, the receiver and the
\* subscriber run, and no further connection arrives.
WatchInit ==
    /\ clients = {1}
    /\ client_lock = "free"
    /\ conn = [c \in Conns |-> IF c = 1
                  THEN [tls |-> "secure", closed |-> FALSE, peer |-> "alive"]
                  ELSE [tls |-> "none", closed |-> FALSE, peer |-> "alive"]]
    /\ nconn = 1
    /\ pc = [t \in {"main", "hb", "mon"} |->
                IF t = "main" THEN "accept" ELSE IF t = "hb" THEN "lock" ELSE "exists"]
    /\ list = [t \in {"main", "hb", "mon"} |-> << >>]
    /\ idx = [t \in {"main", "hb", "mon"} |-> 0]
    /\ err = [t \in {"main", "hb", "mon"} |-> "none"]
    /\ rcv = [c \in Conns |-> IF c = 1 THEN "recv" ELSE "none"]
    /\ current_inode = None
    /\ file_handle = NoHandle
    /\ file_stat = None
    /\ line = << >>
    /\ path_inode = None
    /\ files = [f \in Inodes |-> << >>]
    /\ ninode = 0
    /\ truncated = {}
    /\ passes = [l \in LineIds |-> 0]
    /\ alerts = [c \in Conns |-> [l \in LineIds |-> 0]]
    /\ reads = {}
    /\ txfail = {}
    /\ since = [c \in Conns |-> 0]
    /\ now = 0
    /\ wake = 0
    /\ hbsent = [c \in Conns |-> {}]

WatchNext == Monitor \/ Writers \/ Receivers \/ Peers

WatchSpec == WatchInit /\ [][WatchNext]_vars

\* The watcher side with one file, which is created, appended to and truncated
\* in place.
\* (The histories are kept per position in a file; a position written again
\* after a truncation inherits the history of the line it replaced.)
TruncNext ==
    \/ Monitor \/ Receivers \/ Peers
    \/ Replace(1) \/ (\E txt \in LineSet : AppendLine(txt)) \/ Truncate

TruncSpec == WatchInit /\ [][TruncNext]_vars

\* Both broadcasters: the watcher on one file, which is created and appended
\* to, and the keep-alive thread, with the one registered client of WatchInit.
BothNext ==
    \/ Monitor \/ Heartbeat \/ Receivers \/ Peers
    \/ Replace(1) \/ (\E txt \in LineSet : AppendLine(txt))

BothSpec == WatchInit /\ [][BothNext]_vars

\* The keep-alive side with the clock followed.  It starts in a state Spec
\* reaches (all at one instant): every connection accepted, handshaken and
\* registered and its receiver started, while the keep-alive thread is in a
\* sleep that ends now or up to keep_alive_interval from now.
TimedInit ==
    /\ clients = Conns
    /\ client_lock = "free"
    /\ conn = [c \in Conns |-> [tls |-> "secure", closed |-> FALSE, peer |-> "alive"]]
    /\ nconn = MaxConns
    /\ pc = [t \in {"main", "hb", "mon"} |->
                IF t = "main" THEN "accept" ELSE IF t = "hb" THEN "asleep" ELSE "exists"]
    /\ list = [t \in {"main", "hb", "mon"} |-> << >>]
    /\ idx = [t \in {"main", "hb", "mon"} |-> 0]
    /\ err = [t \in {"main", "hb", "mon"} |-> "none"]
    /\ rcv = [c \in Conns |-> "recv"]
    /\ current_inode = None
    /\ file_handle = NoHandle
    /\ file_stat = None
    /\ line = << >>
    /\ path_inode = None
    /\ files = [f \in Inodes |-> << >>]
    /\ ninode = 0
    /\ truncated = {}
    /\ passes = [l \in LineIds |-> 0]
    /\ alerts = [c \in Conns |-> [l \in LineIds |-> 0]]
    /\ reads = {}
    /\ txfail = {}
    /\ since = [c \in Conns |-> 0]
    /\ now = 0
    /\ wake \in 0..keep_alive_interval
    /\ hbsent = [c \in Conns |-> {}]

TimedNext == HeartbeatPass \/ HbSleepStart \/ HbWake \/ Tick \/ Receivers \/ Peers

TimedSpec == TimedInit /\ [][TimedNext]_vars

\* ============================================================ properties
Fanout == {"hb", "mon"}

Exists(l) == l[2] <= Len(files[l[1]])

Text(l) == files[l[1]][l[2]].txt

\* The watcher holds an open handle on l's file, positioned before l.
Ahead(l) ==
    /\ file_handle.state = "open"
    /\ file_handle.ino = l[1]
    /\ file_handle.pos < l[2]

\* Client c is owed an alert for line l: l contains the keyword, was appended
\* while the watcher held an open, positioned handle on its file, and c was
\* registered before that and still is.
Owed(l, c) ==
    /\ Exists(l)
    /\ Contains(keyword, Text(l))
    /\ files[l[1]][l[2]].live
    /\ c \in clients
    /\ since[c] < files[l[1]][l[2]].seq

\* C1: every keyword line appended after the watcher (re)opened the file is
\* eventually alerted to every client that stays registered.  As a property a
\* finite run refutes: a line owed to a registered client is never lost, that
\* is, it lies ahead of the watcher's handle, or is the line the watcher holds,
\* or has had its pass (once the handle has left the line behind unread no
\* later open returns to it: every open seeks to the end).
C1_DeliveryAcrossRotation ==
    \A l \in LineIds : \A c \in Conns :
        Owed(l, c) => (Ahead(l) \/ line = l \/ passes[l] > 0)

\* C2: a client whose send failed with a transport error during a pass has,
\* by the end of that pass (whenever no pass holds the lock), been removed from
\* the registry and closed.
C2_PruneOnFailure ==
    (client_lock \notin Fanout) =>
        \A c \in txfail : c \notin clients /\ conn[c].closed

\* The acceptor is in its loop: shutdown has not begun.
Accepting == pc["main"] \in {"accept", "wrap", "add", "spawn"}

\* C3: the receiver's and the fan-out's retirement of one connection never
\* raise on an already-removed member (no KeyError in either; shutdown, the
\* third remover, not yet begun), and once both are through with it the
\* connection is out of the registry and closed.
C3_IdempotentRemoval ==
    Accepting =>
        /\ \A c \in Conns : rcv[c] # "KeyError"
        /\ \A t \in Fanout : err[t] # "KeyError"
        /\ \A c \in txfail :
              (rcv[c] = "done" /\ client_lock \notin Fanout) =>
                  (c \notin clients /\ conn[c].closed)

\* C4: registry mutation and iteration happen under the one shared mutex, so
\* while a fan-out pass holds it, no step of another thread changes the registry.
C4_MutationUnderLock ==
    [][\A t \in Fanout :
          (client_lock = t /\ pc'[t] = pc[t] /\ idx'[t] = idx[t]) => clients' = clients]_vars

\* C5: a fan-out pass attempts a send to every member of its snapshot: when a
\* thread is not inside a pass, its last pass has gone through its whole list.
C5_EveryMemberAttempted ==
    \A t \in Fanout : client_lock # t => idx[t] = Len(list[t])

\* C6: the keep-alive thread never terminates (before shutdown): no outcome
\* of a send, a removal or a log line inside a pass stops it.
C6_HeartbeatNeverStops == pc["hb"] # "dead"

\* C7: a failed TLS handshake never ends the accept loop: the socket is
\* closed, the connection is never registered, and the loop is left only by
\* the operator's interrupt.
C7_HandshakeFailureKeepsAccepting ==
    /\ \A c \in Conns : conn[c].tls = "failed" => (conn[c].closed /\ c \notin clients)
    /\ err["main"] # "OSError"

\* C8: at-most-once alerting: every line read has had exactly one pass if it
\* contains the keyword (or is the line the watcher is about to fan out) and
\* none otherwise, no line has more than one pass, and no client is sent more
\* than one alert for a line.
C8_AtMostOnceAlerting ==
    /\ \A l \in LineIds :
          /\ passes[l] <= 1
          /\ passes[l] > 0 => l \in reads
          /\ \A c \in Conns : alerts[c][l] <= 1 /\ (alerts[c][l] > 0 => passes[l] > 0)
    /\ \A l \in reads :
          /\ Exists(l)
          /\ IF Contains(keyword, Text(l))
               THEN passes[l] = 1 \/ (line = l /\ pc["mon"] = "lock")
               ELSE passes[l] = 0

\* Witness: both a line of the first file and a line with two occurrences of
\* the keyword in the second file have been alerted to the client, once each.
C8_Witness ==
    /\ alerts[1][<< 1, 1 >>] = 1
    /\ alerts[1][<< 2, 1 >>] = 1
    /\ files[2][1].txt = << "L", "i", "L", "i" >>

\* C9: no alert for pre-existing content: the line the watcher fans out was
\* read through its current handle from beyond the file's end at that handle's
\* seek, and was appended while the watcher held an open, positioned handle on
\* that file.
C9_NoPreexistingContent ==
    line # << >> =>
        /\ file_handle.state = "open"
        /\ file_handle.ino = line[1]
        /\ line[2] > file_handle.start
        /\ files[line[1]][line[2]].live

\* Witness: the file held one line when the watcher sought to its end, and the
\* line appended after that has been alerted.
C9_Witness ==
    /\ line # << >>
    /\ file_handle.start = 1
    /\ line[2] = 2
    /\ alerts[1][line] = 1

\* C10: whenever the watcher holds an open handle, current_inode is the inode
\* of the file the handle is bound to.
C10_InodeMatchesHandle ==
    file_handle.state = "open" => current_inode = file_handle.ino

\* C11: truncation in place is noticed: a keyword line appended after the
\* file was truncated, while the watcher holds its handle on that file, is
\* eventually read and alerted.  As a property a finite run refutes: such a
\* line is never lost, that is, it lies ahead of the handle's offset, or is the
\* line the watcher holds, or has had its pass (the offset of a handle never
\* moves back, and every open seeks to the end).
C11_TruncationDetected ==
    \A l \in LineIds : \A c \in Conns :
        ( /\ Owed(l, c)
          /\ l[1] \in truncated
          /\ file_handle.state = "open"
          /\ file_handle.ino = l[1] )
        => (Ahead(l) \/ line = l \/ passes[l] > 0)

\* C12: the watcher never terminates on an error: whatever is raised while
\* checking, opening or reading the file or inside a fan-out pass takes it to
\* the handler of line 104 with the lock released, and from the handler (log,
\* sleep of one poll interval, finally) it goes to its next poll tick.
C12_MonitorSurvivesErrors ==
    [][ /\ pc'["mon"] # "dead"
        /\ err'["mon"] # "none" => (pc'["mon"] = "except" /\ client_lock' # "mon")
        /\ (pc["mon"] = "except" /\ pc'["mon"] # "except") =>
               (pc'["mon"] = "exists" /\ err'["mon"] = "none") ]_vars

\* Witness: the watcher is in its handler after a KeyError raised inside an
\* alert pass, its handle still open.
C12_Witness ==
    /\ pc["mon"] = "except"
    /\ err["mon"] = "KeyError"
    /\ file_handle.state = "open"

\* C13: the registry holds no connection twice (it is a set), and every member
\* is a handshake-completed connection that the server has not closed.
C13_RegistryMembers ==
    \A c \in clients : conn[c].tls = "secure" /\ ~conn[c].closed

\* C14: a receiver that has seen its peer close or an exception removes its
\* connection from the registry, closes it and terminates: once a receiver has
\* terminated (returned, or been ended by an exception), its connection is
\* not in the registry and is closed.
C14_ReceiverRetires ==
    \A c \in Conns :
        rcv[c] \in {"done", "KeyError"} => (c \notin clients /\ conn[c].closed)

\* C15: a send that fails with an error outside the transport class changes
\* nothing in the registry (the client stays registered and is not closed);
\* the error is logged and the pass goes on to the remaining clients.
C15_OtherErrorLeavesRegistry ==
    [][\A t \in Fanout :
          (pc[t] = "logO" /\ pc'[t] # "logO") =>
              /\ clients' = clients
              /\ conn'[Cur(t)] = conn[Cur(t)]
              /\ pc'[t] = "send"
              /\ client_lock' = t]_vars

\* C16: heartbeat cadence: with an interval of 2 time units, a client that has
\* stayed connected for 10 time units has been sent at least 4 and at most 6
\* keep-alive tokens.
C16_HeartbeatCadence ==
    \A c \in Conns :
        ( /\ now = 10
          /\ c \in clients
          /\ conn[c].peer = "alive"
          /\ ~conn[c].closed )
        => ( /\ Cardinality(hbsent[c]) >= 4
             /\ Cardinality(hbsent[c]) <= 6 )

\* Thread t is inside a fan-out pass: at a send, or in the handling of a
\* failed one.
InPass(t) == pc[t] \in {"send", "logT", "remove", "close", "logO"}

\* C17: all client sends are serialized under the registry mutex: a thread
\* inside a pass holds client_lock, so the keep-alive thread and the watcher
\* are never both inside a send.
C17_SendsSerialized ==
    /\ \A t \in Fanout : InPass(t) => client_lock = t
    /\ ~(InPass("hb") /\ InPass("mon"))

\* Witness: the watcher has sent its alert to the client and is still inside
\* its pass, while the keep-alive thread, which has sent tokens before, waits
\* for the lock.
C17_Witness ==
    /\ pc["mon"] = "send"
    /\ idx["mon"] = 1
    /\ alerts[1][line] = 1
    /\ pc["hb"] = "lock"
    /\ hbsent[1] # {}

\* C18 as stated: at every poll tick at which the path does not exist the
\* watcher is in NO_FILE: it holds no open handle (and reads no line, sends no
\* alert and only sleeps before it retries).
C18_NoHandleOnMissingPath ==
    (pc["mon"] = "exists" /\ path_inode = None) => file_handle.state # "open"

\* C18, amended: a poll tick at which the path does not exist reads no line,
\* starts no pass, sends no alert and leaves the handle and its offset as
\* they are: the watcher stays at the top of its loop, and a handle opened
\* before the path went away stays open.
C18_MissingPathTick ==
    [][(pc["mon"] = "exists" /\ path_inode = None) =>
          /\ pc'["mon"] = "exists"
          /\ file_handle' = file_handle
          /\ line' = line
          /\ reads' = reads
          /\ passes' = passes
          /\ alerts' = alerts]_vars

\* Witness: the path has been unlinked under a watcher that has read from the
\* file and is at the top of its loop, its handle still open.
C18_Witness ==
    /\ pc["mon"] = "exists"
    /\ path_inode = None
    /\ file_handle.state = "open"
    /\ file_handle.pos > file_handle.start

\* C19: a poll tick that ends with the handle closed resets current_inode to
\* none, and the next tick at which the path exists goes on to open, opens a
\* new handle, records the inode of the file it opened and seeks to its end.
C19_ClosedHandleForcesReopen ==
    [][ /\ (pc'["mon"] = "exists" /\ file_handle'.state = "closed") =>
               current_inode' = None
        /\ ( /\ pc["mon"] = "stat" /\ pc'["mon"] # "stat"
             /\ file_handle.state = "closed" /\ path_inode # None ) =>
               pc'["mon"] = "open"
        /\ ( /\ pc["mon"] = "open" /\ pc'["mon"] = "seek"
             /\ file_handle.state = "closed" /\ current_inode = None ) =>
               (file_handle'.state = "open" /\ current_inode' = file_handle'.ino)
        /\ (pc["mon"] = "seek" /\ pc'["mon"] = "read") =>
               file_handle'.pos = Len(files[file_handle'.ino]) ]_vars

\* C20: operator shutdown always completes cleanly: once start_server has
\* been left after the interrupt, every connection that was registered when
\* the shutdown step began is closed, the registry is empty and the listening
\* socket is closed.
C20_CleanShutdown ==
    pc["main"] = "done" =>
        /\ clients = {}
        /\ \A i \in DOMAIN list["main"] : conn[list["main"][i]].closed
        /\ ServerSocketClosed

====
